---------------------------- MODULE Spec2Model ----------------------------
(***************************************************************************)
(* Model of the package scanner's server route, src/pages/api/scan.ts:     *)
(* the module-level Deno directory cache and its one startup refresh       *)
(* (updateDenoPackages), and the request handler with the scan it runs     *)
(* (handler, scanPackageJson, runScan, isMaliciousPackage,                 *)
(* isDenoMaliciousPackage); and of the upload page that calls it,          *)
(* src/components/scan.tsx with src/components/api/api.tsx.                *)
(*                                                                         *)
(* JavaScript runs each continuation to completion, so one action is one   *)
(* run from an await to the next await (or to the response).  Strings the  *)
(* code tests with a regular expression are sequences of one-character     *)
(* strings; an issue string built from a template is the record of the     *)
(* template and the values put into it.                                    *)
(*                                                                         *)
(* Spec takes every manifest of PackageJson with a module index that lists *)
(* one module; CacheSpec takes every body of the module index with         *)
(* manifests that differ in their dependencies only; TwiceSpec remembers   *)
(* each scan for the next; ScriptSpec and VersionSpec take manifests of    *)
(* many scripts and of many version strings; LiveSpec is CacheSpec with    *)
(* the fairness of the module's own steps; UiSpec is the upload page.      *)
(***************************************************************************)
EXTENDS Naturals, Sequences, FiniteSets

\* Longest dependencies object a request carries.
MaxDeps == 2
\* Longest scripts object a request carries.
MaxScripts == 2
\* Longest items array the module index answers with.
MaxItems == 3
\* Longest version string of which every spelling is taken.
MaxVersionLen == 5
\* Most clicks on Scan Package.
MaxClicks == 3

-----------------------------------------------------------------------------
(* Values *)

\* A property the JSON object does not have (reads as undefined).
Absent == "<undefined>"

\* !x for a string-or-undefined property: undefined and "" are falsy.
Falsy(x) == x = Absent \/ x = ""

Range(s) == {s[i] : i \in 1..Len(s)}

\* The entry lists, in insertion order, of the objects with at most n keys
\* whose entries are in S: an object holds each key once.
RECURSIVE EntriesUpTo(_, _)
EntriesUpTo(S, n) ==
    IF n = 0 THEN {<<>>}
    ELSE LET shorter == EntriesUpTo(S, n - 1)
         IN  shorter \cup
             {Append(s, e) : s \in {t \in shorter : Len(t) = n - 1},
                             e \in S}

DistinctKeys(s) == \A i, j \in 1..Len(s) : s[i].key = s[j].key => i = j

Objects(S, n) == {s \in EntriesUpTo(S, n) : DistinctKeys(s)}

-----------------------------------------------------------------------------
(* Regular expressions of runScan *)

Digits == {"0", "1", "2", "3", "4", "5", "6", "7", "8", "9"}

\* The longest run of digits of v that starts at position i ends before
\* the position returned.
RECURSIVE SkipDigits(_, _)
SkipDigits(v, i) ==
    IF i <= Len(v) /\ v[i] \in Digits THEN SkipDigits(v, i + 1) ELSE i

\* /^\d+\.\d+\.\d+$/ applied to v from position i on.
SemverFrom(v, i) ==
    LET a == SkipDigits(v, i)
        b == SkipDigits(v, a + 1)
        c == SkipDigits(v, b + 1)
    IN  /\ a > i
        /\ a <= Len(v) /\ v[a] = "."
        /\ b > a + 1
        /\ b <= Len(v) /\ v[b] = "."
        /\ c > b + 1
        /\ c = Len(v) + 1

\* /^\d+\.\d+\.\d+$/.test(version)
ExactVersion(v) == SemverFrom(v, 1)

\* /^[~^]\d+\.\d+\.\d+$/.test(version)
RangeVersion(v) == Len(v) >= 1 /\ v[1] \in {"~", "^"} /\ SemverFrom(v, 2)

\* The condition of line 86 without its second pattern.
VersionFormatOkExactOnly(v) == ExactVersion(v)

\* The condition of line 86, negated: the version needs no issue.
VersionFormatOk(v) == ExactVersion(v) \/ RangeVersion(v)

UpperCase == <<"A","B","C","D","E","F","G","H","I","J","K","L","M",
               "N","O","P","Q","R","S","T","U","V","W","X","Y","Z">>
LowerCase == <<"a","b","c","d","e","f","g","h","i","j","k","l","m",
               "n","o","p","q","r","s","t","u","v","w","x","y","z">>

\* Case folding of the i flag.
Fold(c) ==
    IF \E k \in 1..26 : UpperCase[k] = c
    THEN LowerCase[CHOOSE k \in 1..26 : UpperCase[k] = c]
    ELSE c

\* The alternatives of the pattern of line 77, in its order.
SuspiciousTokens ==
    << <<"c","u","r","l">>,
       <<"w","g","e","t">>,
       <<"r","m"," ","-","r","f">>,
       <<"b","a","s","e","6","4">>,
       <<"e","v","a","l">>,
       <<"e","x","e","c">>,
       <<"s","e","t","T","i","m","e","o","u","t">>,
       <<"s","e","t","I","n","t","e","r","v","a","l">>,
       <<"f","s",".","w","r","i","t","e","F","i","l","e","S","y","n","c">>,
       <<"c","h","i","l","d","_","p","r","o","c","e","s","s">>,
       <<"n","e","t","c","a","t">>,
       <<"n","c">>,
       <<"b","a","s","h">>,
       <<"s","h">>,
       <<"p","o","w","e","r","s","h","e","l","l">>,
       <<"p","y","t","h","o","n">>,
       <<"p","e","r","l">>,
       <<"n","o","d","e">>,
       <<"j","a","v","a">>,
       <<"l","u","a">>,
       <<"r","u","b","y">>,
       <<"p","h","p">>,
       <<"o","p","e","n","s","s","l">>,
       <<"e","n","v">>,
       <<"n","c","a","t">>,
       <<"s","o","c","a","t">>,
       <<"r","e","v","e","r","s","e"," ","s","h","e","l","l">>,
       <<"c","r","y","p","t","o">>,
       <<"d","n","s">>,
       <<"h","t","t","p">>,
       <<"g","e","t">>,
       <<"p","o","s","t">>,
       <<"f","e","t","c","h">>,
       <<"a","x","i","o","s">>,
       <<"r","e","q","u","e","s","t">>,
       <<"X","M","L","H","t","t","p","R","e","q","u","e","s","t">>,
       <<"d","o","c","u","m","e","n","t",".","w","r","i","t","e">> >>

LineTerminators == {"\n", "\r"}

\* One pattern character against one input character: "." is the wildcard
\* (any character but a line terminator), a letter matches in either case.
CharMatches(p, c) ==
    IF p = "." THEN c \notin LineTerminators ELSE Fold(p) = Fold(c)

\* Alternative tok matches script at position i.
TokenAt(script, i, tok) ==
    /\ i + Len(tok) - 1 <= Len(script)
    /\ \A k \in 1..Len(tok) : CharMatches(tok[k], script[i + k - 1])

\* The test of line 77: some alternative matches somewhere in the script.
SuspiciousScript(script) ==
    \E t \in 1..Len(SuspiciousTokens), i \in 1..Len(script) :
        TokenAt(script, i, SuspiciousTokens[t])

-----------------------------------------------------------------------------
(* Requests *)

Methods == {"POST", "GET"}

ManifestNames == {"", "app"}
ManifestVersions == {Absent, "1.0.0"}

\* The scripts a request may declare.
ScriptEntries ==
    {[key |-> "build", value |-> <<"t","s","c">>],
     [key |-> "postinstall",
      value |-> <<"c","u","r","l"," ","x","|","s","h">>]}

\* Scripts whose names and bodies hold the punctuation of the template of
\* line 78, a body in capitals and bodies without a command.
NamedScripts ==
    {[key |-> "a", value |-> <<"s","h",":"," ","s","h">>],
     [key |-> "a: sh", value |-> <<"s","h">>],
     [key |-> "docs",
      value |-> <<"d","o","c","u","m","e","n","t","-","w","r","i","t","e">>],
     [key |-> "dl", value |-> <<"W","G","E","T"," ","u">>],
     [key |-> "build", value |-> <<"t","s","c">>]}

\* The dependencies a request may declare.
DepEntries ==
    {[key |-> "shelljs", value |-> <<"1",".","0",".","0">>],
     [key |-> "shelljs", value |-> <<"l","a","t","e","s","t">>],
     [key |-> "oak", value |-> <<"^","1",".","2",".","3">>]}

\* An object-valued property: absent, or the entries in insertion order.
NoObject == [present |-> FALSE, entries |-> <<>>]
Object(entries) == [present |-> TRUE, entries |-> entries]

ScriptObjects ==
    {NoObject} \cup
    {Object(e) : e \in Objects(ScriptEntries, MaxScripts)}

DepObjects ==
    {NoObject} \cup
    {Object(e) : e \in Objects(DepEntries, MaxDeps)}

DevDepObjects ==
    {NoObject,
     Object(<<[key |-> "shelljs", value |-> <<"l","a","t","e","s","t">>]>>)}

\* interface PackageJson
PackageJson ==
    [name : ManifestNames, version : ManifestVersions,
     scripts : ScriptObjects, dependencies : DepObjects,
     devDependencies : DevDepObjects]

\* The value read for packageJson when req.body has no such property.
NoPackageJson ==
    [name |-> Absent, version |-> Absent, scripts |-> NoObject,
     dependencies |-> NoObject, devDependencies |-> NoObject]

-----------------------------------------------------------------------------
(* Answers of the outside world *)

\* What the fetch of https://registry.npmjs.org/<pkg> and the read of its
\* body come to: the fetch rejects, or answers with a status and a body
\* whose versions property is absent or an object with these keys.
PrimaryAnswers ==
    {[rejects |-> TRUE, status |-> 0, hasVersions |-> FALSE, versions |-> {}],
     [rejects |-> FALSE, status |-> 404, hasVersions |-> FALSE, versions |-> {}],
     [rejects |-> FALSE, status |-> 200, hasVersions |-> FALSE, versions |-> {}],
     [rejects |-> FALSE, status |-> 200, hasVersions |-> TRUE, versions |-> {}],
     [rejects |-> FALSE, status |-> 200, hasVersions |-> TRUE,
      versions |-> {"1.0.0"}]}

\* response.ok
Ok(status) == status \in 200..299

\* What the fetch of https://deno.land/x/<pkg>/mod.ts comes to.
DenoAnswers ==
    {[rejects |-> TRUE, status |-> 0],
     [rejects |-> FALSE, status |-> 200],
     [rejects |-> FALSE, status |-> 404]}

NoDenoFetch == [rejects |-> FALSE, status |-> 0]

\* What `npm audit --json` and JSON.parse of its output come to: one of
\* them throws, or the report's vulnerabilities in key order.
AuditAnswers ==
    {[throws |-> TRUE, vulnerabilities |-> <<>>],
     [throws |-> FALSE, vulnerabilities |-> <<>>],
     [throws |-> FALSE, vulnerabilities |->
        <<[key |-> "lodash", name |-> "lodash", severity |-> "high"],
          [key |-> "minimist", name |-> Absent, severity |-> Absent]>>]}

\* An element of the items array of the module index: null, or an object
\* with this name.
NullItem == [isNull |-> TRUE, name |-> Absent]
Item(n) == [isNull |-> FALSE, name |-> n]
IndexItems == {NullItem, Item("oak"), Item("std")}

RECURSIVE SeqsUpTo(_, _)
SeqsUpTo(S, n) ==
    IF n = 0 THEN {<<>>}
    ELSE LET shorter == SeqsUpTo(S, n - 1)
         IN  shorter \cup
             {Append(s, e) : s \in {t \in shorter : Len(t) = n - 1},
                             e \in S}

\* What response.json() of the module index comes to: it throws, or gives
\* an object whose items property is absent or this array.
IndexBodies ==
    {[throws |-> TRUE, hasItems |-> FALSE, items |-> <<>>],
     [throws |-> FALSE, hasItems |-> FALSE, items |-> <<>>]} \cup
    {[throws |-> FALSE, hasItems |-> TRUE, items |-> l] :
        l \in SeqsUpTo(IndexItems, MaxItems)}

-----------------------------------------------------------------------------
(* Issues: each template of runScan with the values put into it *)

InvalidPackageJson == [kind |-> "Invalid package.json: Missing name or version."]
SuspiciousScriptIssue(key, script) ==
    [kind |-> "Suspicious script detected in", key |-> key, script |-> script]
InvalidVersionIssue(pkg, version) ==
    [kind |-> "Invalid version format for", pkg |-> pkg, version |-> version]
MaliciousIssue(pkg) ==
    [kind |-> "Potentially malicious package detected", pkg |-> pkg]
AuditIssue(name, severity) ==
    [kind |-> "npm audit", name |-> name, severity |-> severity]
AuditFailedIssue == [kind |-> "Failed to run npm audit."]
DenoIssue(pkg) ==
    [kind |-> "Deno security alert", pkg |-> pkg]
NoIssuesFound == [kind |-> "No issues found"]

\* The characters of the property names and values that the templates
\* interpolate.
Spell(s) ==
    CASE s = "a" -> <<"a">>
      [] s = "a: sh" -> <<"a",":"," ","s","h">>
      [] s = "docs" -> <<"d","o","c","s">>
      [] s = "dl" -> <<"d","l">>
      [] s = "build" -> <<"b","u","i","l","d">>
      [] s = "postinstall" -> <<"p","o","s","t","i","n","s","t","a","l","l">>
      [] s = "shelljs" -> <<"s","h","e","l","l","j","s">>
      [] s = "oak" -> <<"o","a","k">>
      [] s = "lodash" -> <<"l","o","d","a","s","h">>
      [] s = "minimist" -> <<"m","i","n","i","m","i","s","t">>
      [] s = "high" -> <<"h","i","g","h">>
      [] s = "unknown severity" ->
            <<"u","n","k","n","o","w","n"," ","s","e","v","e","r","i","t","y">>

\* The string an issue is: the fixed text of its template as one piece each,
\* what is interpolated character by character. Two issues with the same
\* pieces are the same string.
Text(issue) ==
    CASE issue.kind = "Suspicious script detected in" ->
            <<"Suspicious script detected in ">> \o Spell(issue.key)
                \o <<":", " ">> \o issue.script
      [] issue.kind = "Invalid version format for" ->
            <<"Invalid version format for ">> \o Spell(issue.pkg)
                \o <<":", " ">> \o issue.version
      [] issue.kind = "Potentially malicious package detected" ->
            <<"Potentially malicious package detected: ">> \o Spell(issue.pkg)
                \o <<". Always download from official sources like npmjs.com.">>
      [] issue.kind = "npm audit" ->
            <<"npm audit: ">> \o Spell(issue.name) \o <<" ", "(">>
                \o Spell(issue.severity) \o <<")">>
      [] issue.kind = "Deno security alert" ->
            <<"Deno security alert: Potential malicious package detected: ">>
                \o Spell(issue.pkg)
                \o <<". Only use packages from deno.land/x.">>
      [] OTHER -> <<issue.kind>>

-----------------------------------------------------------------------------
(* The state *)

VARIABLES
    knownDenoPackages,  \* the module-level Set
    refreshPc,          \* where updateDenoPackages() stands
    refreshError,       \* its catch block ran
    listedNames,        \* history: the names of the parsed listing's items
    pc,                 \* where the handler's request stands
    req,                \* the request being handled
    cursor,             \* the loop index of the dependency being checked
    issues,             \* runScan's local issues array
    res,                \* the response sent
    primaryLog,         \* history: the registry's answer per dependency
    auditLog,           \* history: the audit's answers
    denoLog,            \* history: per dependency, the cache read and fetch
    lastScan,           \* history: the scan answered before this request
    jsonData,           \* scan.tsx: the parsed file
    scanResult,         \* scan.tsx: the issues on display
    toast,              \* scan.tsx: the notification
    isLoading,          \* scan.tsx: the spinner's flag
    scans               \* the calls of handleScan in the order of the clicks:
                        \* the file each scanned and what its promise came to

cacheVars == <<knownDenoPackages, refreshPc, refreshError, listedNames>>
scanVars == <<pc, req, cursor, issues, res, primaryLog, auditLog, denoLog>>
serverVars == <<cacheVars, scanVars, lastScan>>
uiVars == <<jsonData, scanResult, toast, isLoading, scans>>
vars == <<knownDenoPackages, refreshPc, refreshError, listedNames, pc, req, cursor, issues, res, primaryLog, auditLog,
          denoLog, lastScan, jsonData, scanResult, toast, isLoading, scans>>

NoResponse == [status |-> 0, issues |-> <<>>, error |-> ""]

\* No scan was answered yet.
NoScan ==
    [packageJson |-> NoPackageJson, primaryLog |-> <<>>, denoLog |-> <<>>,
     res |-> NoResponse]

-----------------------------------------------------------------------------
(* updateDenoPackages *)

\* data.items.forEach((pkg) => knownDenoPackages.add(pkg.name)) from item
\* i on: reading .name of null throws, and the items before it stay added.
RECURSIVE AddItems(_, _, _)
AddItems(set, items, i) ==
    IF i > Len(items) THEN [set |-> set, threw |-> FALSE]
    ELSE IF items[i].isNull THEN [set |-> set, threw |-> TRUE]
    ELSE AddItems(set \cup {items[i].name}, items, i + 1)

\* Lines 33-34 on a body: the cache they leave and whether they threw.
StoreListing(set, body) ==
    IF body.throws \/ ~body.hasItems
    THEN [set |-> set, threw |-> TRUE]
    ELSE AddItems(set, body.items, 1)

\* The fetch of the module index settles (line 32).
RefreshFetch(rejects) ==
    /\ refreshPc = "fetch"
    /\ refreshPc' = IF rejects THEN "done" ELSE "json"
    /\ refreshError' = rejects
    /\ UNCHANGED <<knownDenoPackages, listedNames>>
    /\ UNCHANGED scanVars
    /\ UNCHANGED lastScan
    /\ UNCHANGED uiVars

\* response.json() settles and the rest of the try block runs (33-37).
RefreshBody(body) ==
    /\ refreshPc = "json"
    /\ LET r == StoreListing(knownDenoPackages, body)
       IN  /\ knownDenoPackages' = r.set
           /\ refreshError' = r.threw
    /\ listedNames' = {body.items[i].name :
                          i \in {j \in 1..Len(body.items) :
                                    ~body.items[j].isNull}}
    /\ refreshPc' = "done"
    /\ UNCHANGED scanVars
    /\ UNCHANGED lastScan
    /\ UNCHANGED uiVars

-----------------------------------------------------------------------------
(* runScan, scanPackageJson *)

Entries(object) == IF object.present THEN object.entries ELSE <<>>

\* The metadata check with && for ||.
MetadataIssuesBothMissing(packageJson) ==
    IF Falsy(packageJson.name) /\ Falsy(packageJson.version)
    THEN <<InvalidPackageJson>>
    ELSE <<>>

\* Lines 70-72.
MetadataIssues(packageJson) ==
    IF Falsy(packageJson.name) \/ Falsy(packageJson.version)
    THEN <<InvalidPackageJson>>
    ELSE <<>>

\* Lines 76-80 over the entries of scripts.
RECURSIVE ScriptLoop(_)
ScriptLoop(entries) ==
    IF entries = <<>> THEN <<>>
    ELSE (IF SuspiciousScript(Head(entries).value)
          THEN <<SuspiciousScriptIssue(Head(entries).key, Head(entries).value)>>
          ELSE <<>>) \o ScriptLoop(Tail(entries))

\* Lines 75-81.
ScriptIssues(packageJson) == ScriptLoop(Entries(packageJson.scripts))

\* Lines 86-88.
VersionIssues(entry) ==
    IF ~VersionFormatOk(entry.value)
    THEN <<InvalidVersionIssue(entry.key, entry.value)>>
    ELSE <<>>

\* isMaliciousPackage with a catch block that returns false.
isMaliciousPackageFailOpen(answer) ==
    IF answer.rejects THEN FALSE
    ELSE IF ~Ok(answer.status) THEN TRUE
    ELSE IF ~answer.hasVersions THEN FALSE
    ELSE Cardinality(answer.versions) = 0

\* The truthiness of what isMaliciousPackage resolves to (lines 122-132).
isMaliciousPackage(answer) ==
    IF answer.rejects THEN TRUE
    ELSE IF ~Ok(answer.status) THEN TRUE
    ELSE IF ~answer.hasVersions THEN FALSE
    ELSE Cardinality(answer.versions) = 0

\* Lines 89-91.
MaliciousIssues(pkg, answer) ==
    IF isMaliciousPackage(answer) THEN <<MaliciousIssue(pkg)>> ELSE <<>>

\* Line 102 over the report's vulnerabilities.
RECURSIVE VulnerabilityLoop(_)
VulnerabilityLoop(vs) ==
    IF vs = <<>> THEN <<>>
    ELSE <<AuditIssue(
              IF Falsy(Head(vs).name) THEN Head(vs).key ELSE Head(vs).name,
              IF Falsy(Head(vs).severity) THEN "unknown severity"
              ELSE Head(vs).severity)>>
         \o VulnerabilityLoop(Tail(vs))

\* Lines 96-108.
AuditIssues(answer) ==
    IF answer.throws THEN <<AuditFailedIssue>>
    ELSE VulnerabilityLoop(answer.vulnerabilities)

\* isDenoMaliciousPackage with a catch block that returns false.
isDenoMaliciousPackageFailOpen(known, answer) ==
    IF ~known THEN FALSE
    ELSE IF answer.rejects THEN FALSE
    ELSE answer.status # 200

\* What isDenoMaliciousPackage resolves to (lines 134-143), given whether
\* knownDenoPackages has the package and the fetch's answer.
isDenoMaliciousPackage(known, answer) ==
    IF ~known THEN FALSE
    ELSE IF answer.rejects THEN TRUE
    ELSE answer.status # 200

\* Lines 113-115.
DenoIssues(pkg, known, answer) ==
    IF isDenoMaliciousPackage(known, answer) THEN <<DenoIssue(pkg)>> ELSE <<>>

\* scanPackageJson without the substitution for an empty array.
ScanResultAsFound(found) == found

\* scanPackageJson's result for the issues runScan returned (lines 61-63).
ScanResult(found) == IF Len(found) # 0 THEN found ELSE <<NoIssuesFound>>

\* Line 49.
Success(found) == [status |-> 200, issues |-> ScanResult(found), error |-> ""]

\* An error response that carries an issues list as well.
FailureWithIssues(status, error) ==
    [status |-> status, issues |-> <<NoIssuesFound>>, error |-> error]

\* Lines 52 and 55.
Failure(status, error) == [status |-> status, issues |-> <<>>, error |-> error]

\* The dependencies runScan loops over (lines 84-85 and 111-112).
Deps == Entries(req.packageJson.dependencies)

\* The script loop placed before the metadata check.
FirstIssuesScriptsFirst(packageJson) ==
    ScriptIssues(packageJson) \o MetadataIssues(packageJson)

\* Lines 67-81: the issues found before the dependency loop.
FirstIssues(packageJson) ==
    MetadataIssues(packageJson) \o ScriptIssues(packageJson)

\* Lines 85-89 for dependency i: its version is tested, then the registry
\* is asked about it.
EnterDependency(found, deps, i) == found \o VersionIssues(deps[i])

\* Lines 89-91 for the dependency the registry answered about.
LeaveDependency(found, entry, answer) ==
    found \o MaliciousIssues(entry.key, answer)

\* knownDenoPackages.has(pkg) (line 135).
Has(pkg) == pkg \in knownDenoPackages

\* One read of the cache by isDenoMaliciousPackage (line 135).
CacheRead(pkg, fetched) ==
    [pkg |-> pkg, seen |-> knownDenoPackages, fetched |-> fetched,
     answer |-> NoDenoFetch]

\* Lines 112-116 from dependency i on, up to the next fetch: a package the
\* cache does not have is passed over without one.
RECURSIVE DenoLoop(_, _, _)
DenoLoop(deps, i, log) ==
    IF i > Len(deps) THEN [finished |-> TRUE, cursor |-> 0, log |-> log]
    ELSE IF Has(deps[i].key)
    THEN [finished |-> FALSE, cursor |-> i,
          log |-> Append(log, CacheRead(deps[i].key, TRUE))]
    ELSE DenoLoop(deps, i + 1, Append(log, CacheRead(deps[i].key, FALSE)))

\* A handler that runs once the refresh of line 39 is over.
HandlerMayRunAfterRefresh == pc = "idle" /\ refreshPc = "done"

\* When the handler may run for a request that arrives: line 39 calls
\* updateDenoPackages() without awaiting it, and nothing in lines 41-57
\* looks at where it stands.
HandlerMayRun == pc = "idle"

\* A request arrives: handler runs up to runScan's first await, or to the
\* response when it reaches none (lines 45-57, 59-60, 67-89, 97).
Request(method, hasPackageJson, packageJson) ==
    /\ HandlerMayRun
    /\ req' = [method |-> method, hasPackageJson |-> hasPackageJson,
               packageJson |-> packageJson]
    /\ primaryLog' = <<>>
    /\ auditLog' = <<>>
    /\ denoLog' = <<>>
    /\ IF method # "POST"
       THEN /\ res' = Failure(405, "Method Not Allowed")
            /\ pc' = "responded"
            /\ cursor' = 0
            /\ issues' = <<>>
       ELSE IF ~hasPackageJson
       THEN \* packageJson.name of undefined throws at line 70
            /\ res' = Failure(500, "Internal Server Error")
            /\ pc' = "responded"
            /\ cursor' = 0
            /\ issues' = <<>>
       ELSE LET deps == Entries(packageJson.dependencies)
                found == FirstIssues(packageJson)
            IN  /\ res' = NoResponse
                /\ IF deps # <<>>
                   THEN /\ pc' = "primary"
                        /\ cursor' = 1
                        /\ issues' = EnterDependency(found, deps, 1)
                   ELSE /\ pc' = "audit"
                        /\ cursor' = 0
                        /\ issues' = found
    /\ UNCHANGED cacheVars
    /\ UNCHANGED lastScan
    /\ UNCHANGED uiVars

\* The registry's answer about dependency cursor arrives: the fetch and the
\* read of its body settle (lines 124-131, two awaits that touch nothing
\* shared), lines 89-91 run, and the loop goes on to the next dependency or
\* to the audit.
PrimaryAnswer(answer) ==
    /\ pc = "primary"
    /\ primaryLog' = Append(primaryLog, answer)
    /\ LET found == LeaveDependency(issues, Deps[cursor], answer)
       IN  IF cursor < Len(Deps)
           THEN /\ pc' = "primary"
                /\ cursor' = cursor + 1
                /\ issues' = EnterDependency(found, Deps, cursor + 1)
           ELSE /\ pc' = "audit"
                /\ cursor' = 0
                /\ issues' = found
    /\ UNCHANGED <<req, res, auditLog, denoLog>>
    /\ UNCHANGED cacheVars
    /\ UNCHANGED lastScan
    /\ UNCHANGED uiVars

\* The response once runScan has returned (lines 60-63, 49).
Respond(found) ==
    /\ pc' = "responded"
    /\ cursor' = 0
    /\ issues' = found
    /\ res' = Success(found)

\* The Deno loop stops at a fetch for dependency r.cursor.
AwaitDeno(found, r) ==
    /\ pc' = "deno"
    /\ cursor' = r.cursor
    /\ issues' = found
    /\ res' = res

\* `npm audit --json` settles (lines 97-108), and the Deno loop starts
\* (lines 111-113).
AuditAnswer(answer) ==
    /\ pc = "audit"
    /\ auditLog' = <<answer>>
    /\ LET found == issues \o AuditIssues(answer)
           r == DenoLoop(Deps, 1, <<>>)
       IN  /\ denoLog' = r.log
           /\ IF r.finished THEN Respond(found) ELSE AwaitDeno(found, r)
    /\ UNCHANGED <<req, primaryLog>>
    /\ UNCHANGED cacheVars
    /\ UNCHANGED lastScan
    /\ UNCHANGED uiVars

\* The fetch of dependency cursor's mod.ts settles (lines 137-142,
\* 113-115), and the Deno loop goes on.
DenoAnswer(answer) ==
    /\ pc = "deno"
    /\ LET found == issues \o DenoIssues(Deps[cursor].key, TRUE, answer)
           log == [denoLog EXCEPT ![cursor].answer = answer]
           r == DenoLoop(Deps, cursor + 1, log)
       IN  /\ denoLog' = r.log
           /\ IF r.finished THEN Respond(found) ELSE AwaitDeno(found, r)
    /\ UNCHANGED <<req, primaryLog, auditLog>>
    /\ UNCHANGED cacheVars
    /\ UNCHANGED lastScan
    /\ UNCHANGED uiVars

\* The handler's promise has settled: nothing of the request remains, and
\* the next request finds the module as this one left it.
Settle ==
    /\ pc = "responded"
    /\ pc' = "idle"
    /\ req' = [method |-> "POST", hasPackageJson |-> FALSE,
               packageJson |-> NoPackageJson]
    /\ cursor' = 0
    /\ issues' = <<>>
    /\ res' = NoResponse
    /\ primaryLog' = <<>>
    /\ auditLog' = <<>>
    /\ denoLog' = <<>>
    /\ UNCHANGED cacheVars
    /\ UNCHANGED uiVars

\* The handler returns (line 57).
Return ==
    /\ Settle
    /\ UNCHANGED lastScan

-----------------------------------------------------------------------------
(* The upload page: components/scan.tsx and components/api/api.tsx *)

\* useState(null) of jsonData, and useState(null) of toast.
NoData == "<null>"
NoToast == [message |-> "", type |-> ""]
Toast(message, type) == [message |-> message, type |-> type]

\* What a selected file reads as: text that JSON.parse rejects, the JSON
\* null, or one of two manifests.
Files == {"a.json", "b.json"}
FileContents == {"<not JSON>", NoData} \cup Files

\* What the fetch of /api/scan comes to: it rejects, or the handler's
\* response arrives.
ClientAnswers ==
    {[rejects |-> TRUE, res |-> NoResponse]} \cup
    {[rejects |-> FALSE, res |-> r] :
        r \in {Success(<<>>), Success(<<InvalidPackageJson>>),
               Failure(500, "Internal Server Error")}}

\* scanPackage (api.tsx): it throws when the fetch rejects or the response
\* is not ok, and returns the parsed body otherwise.
scanPackage(answer) ==
    IF answer.rejects \/ ~Ok(answer.res.status)
    THEN [threw |-> TRUE, issues |-> <<>>]
    ELSE [threw |-> FALSE, issues |-> answer.res.issues]

\* The toast of lines 41-46.
ResultToast(found) ==
    IF Len(found) = 1 /\ found[1] = NoIssuesFound
    THEN Toast("No issues found!", "success")
    ELSE Toast("Security issues detected!", "error")

\* The calls of handleScan whose promise has not settled.
InFlight == {n \in 1..Len(scans) : ~scans[n].settled}

\* reader.onload of handleFileChange (lines 20-30).
FileLoaded(content) ==
    /\ IF content = "<not JSON>"
       THEN /\ toast' = Toast("Invalid JSON format!", "error")
            /\ UNCHANGED jsonData
       ELSE /\ jsonData' = content
            /\ UNCHANGED toast
    /\ UNCHANGED <<scanResult, isLoading, scans>>
    /\ UNCHANGED serverVars

\* A click on Scan Package, which is rendered whenever jsonData is set
\* (lines 114-121): handleScan runs up to its await (lines 36-39).
handleScan ==
    /\ jsonData # NoData
    /\ Len(scans) < MaxClicks
    /\ isLoading' = TRUE
    /\ scans' = Append(scans, [file |-> jsonData, settled |-> FALSE,
                               threw |-> FALSE, issues |-> <<>>])
    /\ UNCHANGED <<jsonData, scanResult, toast>>
    /\ UNCHANGED serverVars

\* The promise of call n settles and handleScan runs on (lines 39-52).
ScanSettles(n, answer) ==
    /\ n \in InFlight
    /\ LET result == scanPackage(answer)
       IN  /\ IF ~result.threw
              THEN /\ scanResult' = result.issues
                   /\ toast' = ResultToast(result.issues)
              ELSE /\ toast' = Toast("Failed to scan package", "error")
                   /\ UNCHANGED scanResult
           /\ scans' = [scans EXCEPT ![n] =
                           [file |-> scans[n].file, settled |-> TRUE,
                            threw |-> result.threw, issues |-> result.issues]]
    /\ isLoading' = FALSE
    /\ UNCHANGED jsonData
    /\ UNCHANGED serverVars

\* The timer of the effect fires (lines 57-62).
DismissToast ==
    /\ toast # NoToast
    /\ toast' = NoToast
    /\ UNCHANGED <<jsonData, scanResult, isLoading, scans>>
    /\ UNCHANGED serverVars

-----------------------------------------------------------------------------
(* The specification *)

Init ==
    /\ knownDenoPackages = {}
    /\ refreshPc = "fetch"
    /\ refreshError = FALSE
    /\ listedNames = {}
    /\ pc = "idle"
    /\ req = [method |-> "POST", hasPackageJson |-> FALSE,
              packageJson |-> NoPackageJson]
    /\ cursor = 0
    /\ issues = <<>>
    /\ res = NoResponse
    /\ primaryLog = <<>>
    /\ auditLog = <<>>
    /\ denoLog = <<>>
    /\ lastScan = NoScan
    /\ jsonData = NoData
    /\ scanResult = <<>>
    /\ toast = NoToast
    /\ isLoading = FALSE
    /\ scans = <<>>

\* The steps of the module, for requests whose packageJson is in manifests
\* and a module index whose body is in bodies.
Step(manifests, bodies) ==
    \/ \E rejects \in BOOLEAN : RefreshFetch(rejects)
    \/ \E body \in bodies : RefreshBody(body)
    \/ \E packageJson \in manifests : Request("POST", TRUE, packageJson)
    \/ \E method \in Methods : Request(method, FALSE, NoPackageJson)
    \/ \E answer \in PrimaryAnswers : PrimaryAnswer(answer)
    \/ \E answer \in AuditAnswers : AuditAnswer(answer)
    \/ \E answer \in DenoAnswers : DenoAnswer(answer)
    \/ Return

\* Every manifest, with an index that lists one module.
ListingOfOne ==
    {[throws |-> FALSE, hasItems |-> TRUE, items |-> <<Item("oak")>>]}

Next == Step(PackageJson, ListingOfOne)

Spec == Init /\ [][Next]_vars

\* Every body of the index, with manifests that differ in their
\* dependencies only.
PlainManifests ==
    {m \in PackageJson :
        /\ m.name = "app" /\ m.version = "1.0.0"
        /\ ~m.scripts.present /\ ~m.devDependencies.present}

CacheNext == Step(PlainManifests, IndexBodies)

CacheSpec == Init /\ [][CacheNext]_vars

\* The scan that was answered is remembered when its request is over.
Remember ==
    /\ Settle
    /\ lastScan' =
          IF req.method = "POST" /\ req.hasPackageJson
          THEN [packageJson |-> req.packageJson, primaryLog |-> primaryLog,
                denoLog |-> denoLog, res |-> res]
          ELSE lastScan

\* Manifests with at most one dependency, for scans that follow each other.
SmallManifests ==
    {m \in PlainManifests : Len(Entries(m.dependencies)) <= 1}

\* The steps of the module for these manifests, each scan remembered for
\* the next one.
TwiceNext ==
    \/ \E rejects \in BOOLEAN : RefreshFetch(rejects)
    \/ \E body \in ListingOfOne : RefreshBody(body)
    \/ \E packageJson \in SmallManifests : Request("POST", TRUE, packageJson)
    \/ \E method \in Methods : Request(method, FALSE, NoPackageJson)
    \/ \E answer \in PrimaryAnswers : PrimaryAnswer(answer)
    \/ \E answer \in AuditAnswers : AuditAnswer(answer)
    \/ \E answer \in DenoAnswers : DenoAnswer(answer)
    \/ Remember

TwiceSpec == Init /\ [][TwiceNext]_vars

\* Manifests of these scripts, with one dependency or none.
ScriptManifests ==
    {[name |-> "app", version |-> "1.0.0", scripts |-> o,
      dependencies |-> d, devDependencies |-> NoObject] :
        o \in {NoObject} \cup
              {Object(e) : e \in Objects(NamedScripts, MaxScripts)},
        d \in {NoObject,
               Object(<<[key |-> "oak",
                         value |-> <<"^","1",".","2",".","3">>]>>)}}

ScriptNext == Step(ScriptManifests, ListingOfOne)

ScriptSpec == Init /\ [][ScriptNext]_vars

\* Version strings: every string of these characters up to a length, and
\* some of other characters.
VersionChars == {"1", ".", "^"}

Versions ==
    SeqsUpTo(VersionChars, MaxVersionLen) \cup
    {<<"~","1",".","2",".","3">>,
     <<"^","1","0",".","2",".","3">>,
     <<"~","1",".","2">>,
     <<"l","a","t","e","s","t">>,
     <<"1",".","0",".","0","\n">>,
     <<"v","1",".","0",".","0">>}

Manifest(entries) ==
    [name |-> "app", version |-> "1.0.0", scripts |-> NoObject,
     dependencies |-> Object(entries), devDependencies |-> NoObject]

\* Manifests of one dependency with any of these versions, and of two
\* dependencies of which each may be ill-formed.
VersionManifests ==
    {Manifest(<<[key |-> "shelljs", value |-> v]>>) : v \in Versions} \cup
    {Manifest(<<[key |-> "shelljs", value |-> v],
                [key |-> "oak", value |-> w]>>) :
        v \in {<<"l","a","t","e","s","t">>, <<"1",".","1",".","1">>},
        w \in {<<"^","1",".","2",".","3">>, <<"1",".","2">>}}

VersionNext == Step(VersionManifests, ListingOfOne)

VersionSpec == Init /\ [][VersionNext]_vars

\* The steps of the upload page.
UiNext ==
    \/ \E content \in FileContents : FileLoaded(content)
    \/ handleScan
    \/ \E n \in 1..MaxClicks, answer \in ClientAnswers : ScanSettles(n, answer)
    \/ DismissToast

UiSpec == Init /\ [][UiNext]_vars

\* What the module does on its own once it may: the audit's child process
\* exits and its callback runs, and the handler's promise settles. Neither
\* registry is among them: nothing in scan.ts puts a timer on a fetch, so
\* whether PrimaryAnswer or DenoAnswer ever happens is the registry's
\* choice alone.
AuditSettles == \E answer \in AuditAnswers : AuditAnswer(answer)

LiveSpec ==
    /\ Init
    /\ [][CacheNext]_vars
    /\ WF_vars(AuditSettles)
    /\ WF_vars(Return)

-----------------------------------------------------------------------------
(* Properties *)

\* A scan ran to its response.
Scanned ==
    pc = "responded" /\ req.method = "POST" /\ req.hasPackageJson

\* How often x occurs in s.
Count(s, x) == Cardinality({i \in 1..Len(s) : s[i] = x})

\* Where key is declared in an object's entries.
IndexOf(entries, key) == CHOOSE i \in 1..Len(entries) : entries[i].key = key

\* The registry lookup came to one of: the fetch rejected, a status outside
\* 200-299, a success whose versions object is empty.
LookupFailed(answer) ==
    \/ answer.rejects
    \/ ~answer.rejects /\ answer.status \notin 200..299
    \/ /\ ~answer.rejects /\ answer.status \in 200..299
       /\ answer.hasVersions /\ answer.versions = {}

\* C1: for every dependency whose registry lookup came back with a
\* non-success status, with no published versions, or failed in transport,
\* the issues hold an issue naming it, and the scan's response is a 200
\* whose issues hold it too: no lookup failure ends the scan in an error.
C1_LookupFailureIsAnIssue ==
    \A k \in 1..Len(primaryLog) :
        LookupFailed(primaryLog[k]) =>
            /\ MaliciousIssue(Deps[k].key) \in Range(issues)
            /\ pc = "responded" =>
                  /\ res.status = 200
                  /\ MaliciousIssue(Deps[k].key) \in Range(res.issues)

\* A scan with two dependencies has responded; the registry rejected the
\* fetch for one and answered 404 for the other.
C1_Witness ==
    /\ Scanned
    /\ Len(primaryLog) = 2
    /\ primaryLog[1].rejects
    /\ ~primaryLog[2].rejects /\ primaryLog[2].status = 404
    /\ res.status = 200

\* The static blocklist of the primary ecosystem (spec section 4.4, and the
\* scenario of section 8); scan.ts holds none.
PrimaryBlocklist == {"shelljs"}

\* C2: in every scan result, each declared dependency whose name is on a
\* static blocklist has an issue flagging that package, whatever the
\* registry answered.
C2_BlocklistedIsReported ==
    Scanned /\ res.status = 200 =>
        \A k \in 1..Len(Deps) :
            Deps[k].key \in PrimaryBlocklist =>
                MaliciousIssue(Deps[k].key) \in Range(res.issues)

\* The place of an issue in the order runScan pushes in: the metadata
\* issue, the script issues by script, per dependency the version issue
\* then the registry issue, the audit's issues, the Deno issues by
\* dependency.
PushOrder(issue) ==
    LET scripts == Entries(req.packageJson.scripts)
    IN  CASE issue = InvalidPackageJson -> 1000
          [] issue.kind = "Suspicious script detected in" ->
                2000 + 10 * IndexOf(scripts, issue.key)
          [] issue.kind = "Invalid version format for" ->
                3000 + 10 * IndexOf(Deps, issue.pkg) + 1
          [] issue.kind = "Potentially malicious package detected" ->
                3000 + 10 * IndexOf(Deps, issue.pkg) + 2
          [] issue.kind = "npm audit" -> 4000
          [] issue = AuditFailedIssue -> 4000
          [] issue.kind = "Deno security alert" ->
                5000 + 10 * IndexOf(Deps, issue.pkg)
          [] OTHER -> 0

\* The place of an issue in the order of spec section 3: as PushOrder, but
\* a dependency's Deno issue is grouped with its other issues.
DeclaredOrder(issue) ==
    IF issue.kind = "Deno security alert"
    THEN 3000 + 10 * IndexOf(Deps, issue.pkg) + 3
    ELSE PushOrder(issue)

IsAuditIssue(issue) == issue.kind = "npm audit" \/ issue = AuditFailedIssue

C4_NoDependenciesIsRejected ==
    /\ Scanned
    /\ ~req.packageJson.dependencies.present
    /\ ~req.packageJson.devDependencies.present
    => /\ res.status \in 400..499
       /\ res.issues = <<>>
       /\ primaryLog = <<>>

\* The fields among name and version that are absent or empty.
MissingFields(packageJson) ==
    {f \in {"name", "version"} : Falsy(packageJson[f])}

C6_DevDependenciesAreChecked ==
    Scanned /\ res.status = 200 =>
        \A k \in 1..Len(Entries(req.packageJson.devDependencies)) :
            LET entry == Entries(req.packageJson.devDependencies)[k]
            IN  ~VersionFormatOk(entry.value) =>
                   InvalidVersionIssue(entry.key, entry.value)
                       \in Range(res.issues)

\* C7: a run of the refresh that fails leaves the cached set as it was.
C7_FailedRefreshKeepsCache ==
    [][refreshPc # "done" /\ refreshPc' = "done" /\ refreshError'
          => knownDenoPackages' = knownDenoPackages]_vars

\* C8: every read of the cache by a scan sees the set from before the
\* refresh (empty) or that set with all the names of the fetched listing.
C8_ReadsSeeAllOrNothing ==
    \A k \in 1..Len(denoLog) :
        \/ denoLog[k].seen = {}
        \/ denoLog[k].seen = listedNames

\* The Deno fetch came to something other than a 200.
DenoFetchFailed(answer) == answer.rejects \/ answer.status # 200

\* C9: a dependency has a Deno issue exactly if the cache held it when
\* isDenoMaliciousPackage read the cache and the fetch of its mod.ts
\* rejected or answered other than 200; a fetch is made exactly for the
\* packages the cache held, and no dependency is passed over.
C9_DenoIssueIffKnownAndFailed ==
    /\ \A k \in 1..Len(denoLog) :
          LET entry == denoLog[k]
              pkg == Deps[k].key
          IN  /\ entry.pkg = pkg
              /\ entry.fetched <=> pkg \in entry.seen
              /\ ~(pc = "deno" /\ cursor = k) =>
                    (DenoIssue(pkg) \in Range(issues)
                        <=> pkg \in entry.seen /\ DenoFetchFailed(entry.answer))
    /\ \A k \in (Len(denoLog) + 1)..Len(Deps) :
          DenoIssue(Deps[k].key) \notin Range(issues)
    /\ Scanned /\ res.status = 200 =>
          /\ Len(denoLog) = Len(Deps)
          /\ \A k \in 1..Len(Deps) :
                DenoIssue(Deps[k].key) \in Range(res.issues)
                    <=> DenoIssue(Deps[k].key) \in Range(issues)

\* A scan has responded in which the cache held the first dependency and
\* its fetch failed, and did not hold the second.
C9_Witness ==
    /\ Scanned /\ res.status = 200
    /\ Len(denoLog) = 2
    /\ denoLog[1].fetched /\ denoLog[1].answer.rejects
    /\ ~denoLog[2].fetched
    /\ DenoIssue(Deps[1].key) \in Range(res.issues)
    /\ DenoIssue(Deps[2].key) \notin Range(res.issues)

\* C10: a request that was answered got one of: a 200 with issues none of
\* which is the sentinel, a 200 with the sentinel alone (and then runScan
\* found nothing and the audit ran), or a failure with an error and no
\* issues; before the answer there is no response.
C10_ThreeOutcomes ==
    /\ pc # "responded" => res = NoResponse
    /\ pc = "responded" =>
          \/ /\ res.status = 200 /\ res.error = ""
             /\ Len(res.issues) > 0
             /\ NoIssuesFound \notin Range(res.issues)
             /\ res.issues = issues
          \/ /\ res.status = 200 /\ res.error = ""
             /\ res.issues = <<NoIssuesFound>>
             /\ issues = <<>>
             /\ Len(auditLog) = 1 /\ ~auditLog[1].throws
          \/ /\ res.status \in {405, 500} /\ res.error # ""
             /\ res.issues = <<>>
             /\ auditLog = <<>>

\* A scan has answered with the sentinel alone.
C10_Witness ==
    /\ Scanned /\ res.status = 200
    /\ res.issues = <<NoIssuesFound>>
    /\ Len(Deps) = 2 /\ Len(primaryLog) = 2 /\ Len(denoLog) = 2

\* C11: every scan that has started comes to its response, also when a
\* registry never answers a fetch.
C11_ScanEventuallyResponds ==
    (pc \in {"primary", "audit", "deno"}) ~> (pc = "responded")

\* C12: a scan of the manifest of the scan before it, in which every read
\* of the cache saw the same set and both registries gave the same answer
\* about every dependency, returns the same issues in the same order.
C12_SameInputsSameIssues ==
    /\ Scanned /\ res.status = 200
    /\ lastScan.res.status = 200
    /\ lastScan.packageJson = req.packageJson
    /\ lastScan.primaryLog = primaryLog
    /\ lastScan.denoLog = denoLog
    => res.issues = lastScan.res.issues

\* C13: the issues of a scan result are pairwise different strings.
C13_NoIssueTwice ==
    Scanned /\ res.status = 200 =>
        \A i, j \in 1..Len(res.issues) :
            i # j => Text(res.issues[i]) # Text(res.issues[j])

\* C14: a dependency about which the registry answered with a success
\* status and a body without a versions object has a registry issue.
C14_MalformedBodyIsAnIssue ==
    \A k \in 1..Len(primaryLog) :
        /\ ~primaryLog[k].rejects
        /\ Ok(primaryLog[k].status)
        /\ ~primaryLog[k].hasVersions
        => MaliciousIssue(Deps[k].key) \in Range(issues)

\* C15: wherever the refresh stands, a request that arrives is handled and
\* a scan that waits for an answer goes on when the answer comes; while the
\* refresh is in flight every read of the cache sees the empty set, after
\* it the set the refresh left, and a fetch is made exactly for the
\* packages that set held; a scan ends in a 200, in which a package the
\* cache did not hold has no Deno issue.
C15_ScanNeverWaitsForRefresh ==
    /\ pc = "idle" =>
          ENABLED (\E method \in Methods : Request(method, FALSE, NoPackageJson))
    /\ pc = "primary" =>
          ENABLED (\E answer \in PrimaryAnswers : PrimaryAnswer(answer))
    /\ pc = "audit" => ENABLED AuditSettles
    /\ pc = "deno" => ENABLED (\E answer \in DenoAnswers : DenoAnswer(answer))
    /\ pc = "responded" => ENABLED Return
    /\ \A k \in 1..Len(denoLog) :
          /\ refreshPc # "done" => denoLog[k].seen = {}
          /\ denoLog[k].seen \subseteq knownDenoPackages
          /\ denoLog[k].fetched <=> denoLog[k].pkg \in denoLog[k].seen
    /\ Scanned =>
          /\ res.status = 200
          /\ \A k \in 1..Len(denoLog) :
                ~denoLog[k].fetched =>
                    DenoIssue(denoLog[k].pkg) \notin Range(res.issues)

\* A scan of two dependencies was answered while the refresh was waiting
\* for the body of the index.
C15_Witness ==
    /\ Scanned /\ res.status = 200
    /\ refreshPc = "json"
    /\ Len(denoLog) = 2
    /\ ~denoLog[1].fetched /\ ~denoLog[2].fetched

\* v[a..b] is a number: one digit or more.
Number(v, a, b) == a <= b /\ \A k \in a..b : v[k] \in Digits

\* v from position a on is MAJOR.MINOR.PATCH.
MajorMinorPatch(v, a) ==
    \E i, j \in a..Len(v) :
        /\ i < j /\ v[i] = "." /\ v[j] = "."
        /\ Number(v, a, i - 1)
        /\ Number(v, i + 1, j - 1)
        /\ Number(v, j + 1, Len(v))

\* MAJOR.MINOR.PATCH, or that after a caret or a tilde.
WellFormed(v) ==
    \/ MajorMinorPatch(v, 1)
    \/ Len(v) >= 1 /\ v[1] \in {"^", "~"} /\ MajorMinorPatch(v, 2)

\* C16: a scan result holds an invalid-version issue for a dependency
\* exactly if its version is neither MAJOR.MINOR.PATCH nor that after a
\* caret or tilde, once, and for nothing that is not a dependency; the scan
\* ends in a 200 after the registry was asked about every dependency and
\* the Deno check ran for every dependency, ill-formed versions or not.
C16_InvalidVersionIffMalformed ==
    /\ \A k \in 1..Len(primaryLog) :
          InvalidVersionIssue(Deps[k].key, Deps[k].value) \in Range(issues)
              <=> ~WellFormed(Deps[k].value)
    /\ Scanned =>
          /\ res.status = 200
          /\ Len(primaryLog) = Len(Deps)
          /\ Len(denoLog) = Len(Deps)
          /\ \A k \in 1..Len(Deps) :
                Count(res.issues,
                      InvalidVersionIssue(Deps[k].key, Deps[k].value))
                    = IF WellFormed(Deps[k].value) THEN 0 ELSE 1
          /\ \A i \in 1..Len(res.issues) :
                res.issues[i].kind = "Invalid version format for" =>
                    \E k \in 1..Len(Deps) :
                        res.issues[i] =
                            InvalidVersionIssue(Deps[k].key, Deps[k].value)

\* A scan was answered whose first dependency has an ill-formed version
\* and whose second has a caret range; the registry was asked about both.
C16_Witness ==
    /\ Scanned /\ res.status = 200
    /\ Len(Deps) = 2 /\ Len(primaryLog) = 2 /\ Len(denoLog) = 2
    /\ ~WellFormed(Deps[1].value)
    /\ Deps[2].value[1] = "^" /\ WellFormed(Deps[2].value)
    /\ InvalidVersionIssue(Deps[1].key, Deps[1].value) \in Range(res.issues)
    /\ InvalidVersionIssue(Deps[2].key, Deps[2].value) \notin Range(res.issues)

\* The script holds one of the pattern's alternatives as a substring,
\* letters in either case.
ContainsToken(script) ==
    \E t \in 1..Len(SuspiciousTokens), i \in 1..Len(script) :
        LET tok == SuspiciousTokens[t]
        IN  /\ i + Len(tok) - 1 <= Len(script)
            /\ \A k \in 1..Len(tok) : Fold(tok[k]) = Fold(script[i + k - 1])

\* C17: a scan result holds the suspicious-script issue of a script once
\* if its body contains one of the pattern's tokens, in either case, and
\* not at all if it contains none.
C17_SuspiciousIffContainsToken ==
    Scanned /\ res.status = 200 =>
        \A k \in 1..Len(Entries(req.packageJson.scripts)) :
            LET entry == Entries(req.packageJson.scripts)[k]
            IN  Count(res.issues, SuspiciousScriptIssue(entry.key, entry.value))
                    = IF ContainsToken(entry.value) THEN 1 ELSE 0

\* The response of a request that was answered is the one its method and
\* body call for.
OneOfTheResponses ==
    /\ pc # "responded" => res = NoResponse
    /\ pc = "responded" /\ req.method # "POST" =>
          /\ res.status = 405 /\ res.error = "Method Not Allowed"
          /\ res.issues = <<>>
          /\ issues = <<>>
          /\ primaryLog = <<>> /\ auditLog = <<>> /\ denoLog = <<>>
    /\ pc = "responded" /\ req.method = "POST" /\ ~req.hasPackageJson =>
          /\ res.status = 500 /\ res.error = "Internal Server Error"
          /\ res.issues = <<>>
          /\ primaryLog = <<>> /\ auditLog = <<>> /\ denoLog = <<>>
    /\ pc = "responded" /\ req.method = "POST" /\ req.hasPackageJson =>
          /\ res.status = 200
          /\ Len(res.issues) > 0
          /\ res.error = ""
    /\ pc \in {"primary", "audit", "deno"} =>
          req.method = "POST" /\ req.hasPackageJson

\* C18: a request is answered once, and by the response its method and
\* body call for: a request that is not a POST by the 405 in the step in
\* which it arrives, with no scan started and nothing looked up; a POST
\* without packageJson by the 500; a POST with one by a 200 with issues.
\* No response has both issues and an error or neither, and a response
\* that was sent stays as it is until the request is over.
C18_ExactlyOneResponse ==
    /\ []OneOfTheResponses
    /\ [][/\ pc = "idle" /\ pc' # "idle" /\ req'.method # "POST"
             => pc' = "responded" /\ res'.status = 405
          /\ res # NoResponse =>
                \/ res' = res /\ pc' = pc
                \/ res' = NoResponse /\ pc' = "idle"]_vars

\* A POST without packageJson was answered with the 500.
C18_Witness ==
    /\ pc = "responded"
    /\ req.method = "POST" /\ ~req.hasPackageJson
    /\ res.status = 500 /\ res.issues = <<>> /\ res.error # ""

\* C19: isLoading is true exactly while a call of handleScan is in flight.
C19_LoadingIffInFlight == isLoading <=> InFlight # {}

\* The calls of handleScan for the file that is loaded now.
ScansOfLoaded == {n \in 1..Len(scans) : scans[n].file = jsonData}

\* The last of them.
Latest == CHOOSE n \in ScansOfLoaded : \A m \in ScansOfLoaded : m <= n

\* C20: once no call of handleScan is in flight and the loaded file was
\* scanned, the issues on display are those the last scan of that file
\* returned, or none when it failed, and the toast, until dismissed or
\* replaced by that of an upload, is that scan's.
C20_DisplayIsOfLatestScan ==
    InFlight = {} /\ ScansOfLoaded # {} =>
        /\ scanResult = IF scans[Latest].threw THEN <<>>
                        ELSE scans[Latest].issues
        /\ toast \in {NoToast, Toast("Invalid JSON format!", "error"),
                      IF scans[Latest].threw
                      THEN Toast("Failed to scan package", "error")
                      ELSE ResultToast(scans[Latest].issues)}

=============================================================================
